---- MODULE Spec2Model ----
(***************************************************************************)
(* Donky generative fill: the masking editor (src/components/CanvasEditor  *)
(* .tsx) inside its host (src/App.tsx), as a state machine.                *)
(*                                                                         *)
(* React semantics the model keeps:                                        *)
(*  - an event handler is a closure over the state of the LAST RENDER      *)
(*    (variable rendered); setState calls are queued and applied in order  *)
(*    (variable queued holds the state with all queued updates applied;    *)
(*    a functional update prev => f(prev) applies to queued, a plain value *)
(*    read in a handler comes from rendered);                              *)
(*  - a discrete event (mousedown, mouseup, touchstart, touchend, click,   *)
(*    change) is rendered synchronously when its handler returns;          *)
(*  - a continuous event (mousemove, touchmove, mouseenter, mouseleave),   *)
(*    a timer/loader callback (FileReader.onload, Image.onload, a promise  *)
(*    continuation) and a setState made inside useEffect are rendered by a *)
(*    later scheduled task (action Render): other events may be handled    *)
(*    first;                                                               *)
(*  - a render commits the queued state and then runs, in source order,    *)
(*    the effects whose dependencies changed.                              *)
(* Numbers that are fractions in the program (scale, stroke coordinates)   *)
(* are exact rationals <<numerator, denominator>>.                         *)
(***************************************************************************)
EXTENDS Integers, Sequences, FiniteSets, TLC

\* ------------------------------------------------------------------ bounds
MaxPaths == 2
MaxPoints == 2
MaxCalls == 2
MaxStrokes == 3

\* ------------------------------------------------------- program constants
MaxDisplayWidth == 800
MaxDisplayHeight == 600
ViewportPadding == 32
InitialBrushSize == 40
MinBrushSize == 5
MaxBrushSize == 150
BrushStep == 5

\* ------------------------------------------------------------ input sets
NULL == "null"
BLANK == "blank"
\* Files the user picks, in the order of picking (a second file can be picked
\* while the first is still being read), and the image a successful
\* generation returns.
Uploads == <<"A", "B">>
GeneratedSrc == "G"
\* Native size of each decoded image (img.width, img.height in img.onload).
NativeSize(src) ==
    CASE src = "A" -> [width |-> 1600, height |-> 1200]
      [] src = "B" -> [width |-> 800, height |-> 600]
      [] OTHER -> [width |-> 1200, height |-> 600]
\* window.innerWidth
ViewportWidths == {832}
\* window.innerWidth after the window is resized
ResizedWidths == {432, 832}
\* canvasRef.current.getBoundingClientRect()
CanvasRect == [left |-> 16, top |-> 100]
\* Client positions at which a gesture can start, and the pointer's move
\* between two consecutive move events.
StartPositions == {<<16, 100>>}
MoveStep == <<100, 0>>
\* Values the range input can deliver, and the deltas of the +/- buttons.
SliderInputs == {45}
BrushDeltas == {0 - BrushStep, BrushStep}
BrushWindow == {InitialBrushSize, InitialBrushSize + BrushStep}
Prompts == {" ", "sky"}
\* What generateFill can fail with: the message of the error it throws.
MissingKeyMessage == "API Key is missing. Please check your environment configuration."
ServiceFailures == {"", "No response from AI."}
\* Native sizes and viewport widths on which the scale computation is examined.
ImageWidths == {1, 640, 800, 1060, 1101, 1600, 4000}
ImageHeights == {1, 480, 600, 1101, 1200, 3000}
ScaleViewports == {33, 432, 832, 1920}
\* Strokes and raster sizes on which the compositor is examined: a horizontal
\* drag, a dot, a thin vertical drag crossing the first, a small dot and a wide
\* diagonal.
At(x, y) == [x |-> <<x, 1>>, y |-> <<y, 1>>]
MaskStrokes ==
    {[points |-> <<At(0, 0), At(200, 0)>>, brushSize |-> 40],
     [points |-> <<At(100, 100)>>, brushSize |-> 40],
     [points |-> <<At(200, 0), At(200, 200)>>, brushSize |-> 20],
     [points |-> <<At(400, 0)>>, brushSize |-> 5],
     [points |-> <<At(0, 0), At(200, 200)>>, brushSize |-> 150]}
MaskSizes == {[width |-> 1600, height |-> 1200], [width |-> 300, height |-> 150]}
\* Pixels at which a raster's alpha is observed.
SamplePixels == {<<0, 0>>, <<100, 0>>, <<200, 0>>, <<400, 0>>, <<100, 100>>, <<200, 200>>}

\* -------------------------------------------------------------- rationals
Abs(n) == IF n < 0 THEN 0 - n ELSE n

RECURSIVE Gcd(_, _)
Gcd(a, b) == IF b = 0 THEN a ELSE Gcd(b, a % b)

\* n/d in lowest terms, d > 0.
Q(n, d) == LET g == Gcd(Abs(n), d) IN <<(Abs(n) \div g) * (IF n < 0 THEN 0 - 1 ELSE 1), d \div g>>

QInt(n) == <<n, 1>>
QAdd(a, b) == Q(a[1] * b[2] + b[1] * a[2], a[2] * b[2])
QSub(a, b) == Q(a[1] * b[2] - b[1] * a[2], a[2] * b[2])
QMul(a, b) == LET x == Q(a[1], b[2])
                  y == Q(b[1], a[2])
              IN  Q(x[1] * y[1], x[2] * y[2])
QLe(a, b) == a[1] * b[2] <= b[1] * a[2]
QLt(a, b) == a[1] * b[2] < b[1] * a[2]
QMin(a, b) == IF QLe(a, b) THEN a ELSE b
\* a / b for b > 0
QDiv(a, b) == QMul(a, <<b[2], b[1]>>)

\* ------------------------------------------------------ Geometry / scale
\* img.onload: scaleFactor = Math.min(maxWidth / w, maxHeight / h, 1)
computeScale(w, h, viewport) ==
    LET maxWidth == IF viewport - ViewportPadding < MaxDisplayWidth
                    THEN viewport - ViewportPadding ELSE MaxDisplayWidth
        maxHeight == MaxDisplayHeight
        scaleW == Q(maxWidth, w)
        scaleH == Q(maxHeight, h)
    IN  QMin(QMin(scaleW, scaleH), QInt(1))

\* ------------------------------------------------- double precision
\* The program's numbers are IEEE-754 doubles. A positive double is kept as
\* [e, m]: m its 53 significand bits, most significant (always 1) first, and
\* value = 0.m1 m2 ... m53 (binary) * 2^e. The arithmetic below works on
\* groups of ChunkBits bits so that no intermediate number leaves 32 bits.
Precision == 53
ChunkBits == 6
ChunkBase == 64
\* Chunks that hold the significand and its rounding bit.
DivisionChunks == 9

\* The binary digits of n >= 0, most significant first (none for 0).
RECURSIVE Bits(_)
Bits(n) == IF n = 0 THEN <<>> ELSE Append(Bits(n \div 2), n % 2)

Zeros(n) == [i \in 1..n |-> 0]

\* The number a short bit sequence writes.
RECURSIVE BitsValue(_)
BitsValue(bits) ==
    IF bits = <<>> THEN 0
    ELSE 2 * BitsValue(SubSeq(bits, 1, Len(bits) - 1)) + bits[Len(bits)]

\* n < ChunkBase as exactly ChunkBits bits.
Chunk(n) == Zeros(ChunkBits - Len(Bits(n))) \o Bits(n)

\* bits without its leading zeros.
StripZeros(bits) ==
    LET ones == {i \in 1..Len(bits) : bits[i] = 1}
    IN  IF ones = {} THEN <<>>
        ELSE SubSeq(bits, CHOOSE i \in ones : \A j \in ones : i <= j, Len(bits))

\* bits + 1, as a sequence of the same length (all ones wrap to all zeros).
Increment(bits) ==
    LET zeros == {i \in 1..Len(bits) : bits[i] = 0}
        last == IF zeros = {} THEN 0 ELSE CHOOSE i \in zeros : \A j \in zeros : j <= i
    IN  [i \in 1..Len(bits) |-> IF i < last THEN bits[i] ELSE IF i = last THEN 1 ELSE 0]

\* Round the exact value 0.bits * 2^e to the nearest double, ties to even;
\* sticky says that the exact value has non-zero digits beyond bits.
RoundToDouble(bits, e, sticky) ==
    LET kept == SubSeq(bits \o Zeros(Precision), 1, Precision)
        guard == IF Len(bits) > Precision THEN bits[Precision + 1] ELSE 0
        rest == sticky \/ \E i \in (Precision + 2)..Len(bits) : bits[i] = 1
        up == guard = 1 /\ (rest \/ kept[Precision] = 1)
        next == Increment(kept)
    IN  IF ~up THEN [e |-> e, m |-> kept]
        ELSE IF next[1] = 1 THEN [e |-> e, m |-> next]
        ELSE [e |-> e + 1, m |-> [next EXCEPT ![1] = 1]]

\* The double of an integer n >= 1 (exact below 2^53).
FromInt(n) == RoundToDouble(Bits(n), Len(Bits(n)), FALSE)

\* a / b = (a2 / b2) * 2^e with 1/2 <= a2 / b2 < 1, as <<a2, b2, e>>.
RECURSIVE Normalized(_, _, _)
Normalized(a, b, e) ==
    IF a >= b THEN Normalized(a, 2 * b, e + 1)
    ELSE IF 2 * a < b THEN Normalized(2 * a, b, e - 1)
    ELSE <<a, b, e>>

\* Long division: the first n * ChunkBits binary digits of r / d (r < d)
\* after the point, followed by the remainder left after them.
RECURSIVE LongDivision(_, _, _)
LongDivision(r, d, n) ==
    IF n = 0 THEN <<r>>
    ELSE Chunk((r * ChunkBase) \div d) \o LongDivision((r * ChunkBase) % d, d, n - 1)

\* The JS expression a / b for integers a, b >= 1: the nearest double.
FDiv(a, b) ==
    LET nm == Normalized(a, b, 0)
        digits == LongDivision(nm[1], nm[2], DivisionChunks)
    IN  RoundToDouble(SubSeq(digits, 1, DivisionChunks * ChunkBits), nm[3],
                      digits[DivisionChunks * ChunkBits + 1] # 0)

\* bits (as a binary number, its length a multiple of ChunkBits) times n,
\* from the least significant chunk on: the digits of the product, most
\* significant first.
RECURSIVE TimesInt(_, _, _)
TimesInt(bits, n, carry) ==
    IF bits = <<>> THEN Bits(carry)
    ELSE LET k == Len(bits)
             v == BitsValue(SubSeq(bits, k - ChunkBits + 1, k)) * n + carry
         IN  TimesInt(SubSeq(bits, 1, k - ChunkBits), n, v \div ChunkBase)
                \o Chunk(v % ChunkBase)

\* The JS expression n * x for an integer n >= 1 and a double x.
FMulInt(n, x) ==
    LET product == StripZeros(TimesInt(<<0>> \o x.m, n, 0))
    IN  RoundToDouble(product, x.e + Len(product) - Precision, FALSE)

\* a <= b for bit sequences of one length, most significant bit first.
BitsLe(a, b) ==
    LET differ == {i \in 1..Len(a) : a[i] # b[i]}
    IN  \/ differ = {}
        \/ a[CHOOSE i \in differ : \A j \in differ : i <= j] = 0

FLe(x, y) == x.e < y.e \/ (x.e = y.e /\ BitsLe(x.m, y.m))

\* Math.min on positive doubles
FMin(x, y) == IF FLe(x, y) THEN x ELSE y

\* The next double above x.
NextUp(x) ==
    LET next == Increment(x.m)
    IN  IF next[1] = 1 THEN [e |-> x.e, m |-> next]
        ELSE [e |-> x.e + 1, m |-> [next EXCEPT ![1] = 1]]

\* A scale computation without the cap at 1.
scaleFactorUncapped(w, h, viewport) ==
    LET maxWidth == IF viewport - ViewportPadding < MaxDisplayWidth
                    THEN viewport - ViewportPadding ELSE MaxDisplayWidth
    IN  FMin(FDiv(maxWidth, w), FDiv(MaxDisplayHeight, h))

\* img.onload as the program computes it, in doubles:
\* scaleFactor = Math.min(maxWidth / w, maxHeight / h, 1)
scaleFactor(w, h, viewport) ==
    LET maxWidth == IF viewport - ViewportPadding < MaxDisplayWidth
                    THEN viewport - ViewportPadding ELSE MaxDisplayWidth
        maxHeight == MaxDisplayHeight
        scaleW == FDiv(maxWidth, w)
        scaleH == FDiv(maxHeight, h)
    IN  FMin(FMin(scaleW, scaleH), FromInt(1))

\* A mapping that multiplies by the scale instead of dividing by it.
getCoordinatesScaled(client, scale) ==
    [x |-> QMul(QInt(client[1] - CanvasRect.left), scale),
     y |-> QMul(QInt(client[2] - CanvasRect.top), scale)]

\* getCoordinates: the pointer relative to the canvas, divided by scale.
getCoordinates(client, scale) ==
    [x |-> QDiv(QInt(client[1] - CanvasRect.left), scale),
     y |-> QDiv(QInt(client[2] - CanvasRect.top), scale)]

\* ------------------------------------------------------------- rasters
\* Squared distance from point p to the segment a-b (all with rational
\* coordinates).
DistSq(p, a, b) ==
    LET dx == QSub(b.x, a.x)
        dy == QSub(b.y, a.y)
        px == QSub(p.x, a.x)
        py == QSub(p.y, a.y)
        len == QAdd(QMul(dx, dx), QMul(dy, dy))
        t == QAdd(QMul(px, dx), QMul(py, dy))
        qx == QSub(p.x, b.x)
        qy == QSub(p.y, b.y)
    IN  IF QLe(t, QInt(0)) THEN QAdd(QMul(px, px), QMul(py, py))
        ELSE IF QLe(len, t) THEN QAdd(QMul(qx, qx), QMul(qy, qy))
        ELSE QSub(QAdd(QMul(px, px), QMul(py, py)), QMul(QDiv(t, len), t))

\* ctx.moveTo(points[0]); points.forEach(p => ctx.lineTo(p)); ctx.stroke()
\* with round caps and joins: the pixels within lineWidth / 2 of the
\* polyline (a single point strokes a dot).
StrokeCovers(path, pixel) ==
    LET p == [x |-> QInt(pixel[1]), y |-> QInt(pixel[2])]
        r2 == Q(path.brushSize * path.brushSize, 4)
        pts == path.points
    IN  /\ Len(pts) > 0
        /\ \/ QLe(DistSq(p, pts[1], pts[1]), r2)
           \/ \E i \in 1..(Len(pts) - 1) : QLe(DistSq(p, pts[i], pts[i + 1]), r2)

\* A compositor in which each stroke replaces the mask of the strokes before it.
transparentPixelsOfLast(width, height, paths) ==
    {px \in SamplePixels :
        /\ px[1] < width
        /\ px[2] < height
        /\ paths # <<>>
        /\ StrokeCovers(paths[Len(paths)], px)}

\* A compositor in which a stroke erases only where the strokes before it
\* left the image untouched at its first point.
transparentPixelsOrdered(width, height, paths) ==
    {px \in SamplePixels :
        /\ px[1] < width
        /\ px[2] < height
        /\ \E i \in 1..Len(paths) :
              /\ StrokeCovers(paths[i], px)
              /\ \A j \in 1..(i - 1) :
                    ~StrokeCovers(paths[j], <<paths[i].points[1].x[1], paths[i].points[1].y[1]>>)}

\* The sample pixels of a width x height raster that the strokes of paths,
\* erased with destination-out, leave fully transparent.
transparentPixels(width, height, paths) ==
    {px \in SamplePixels :
        /\ px[1] < width
        /\ px[2] < height
        /\ \E i \in 1..Len(paths) : StrokeCovers(paths[i], px)}

NoMask == [image |-> NULL, width |-> 0, height |-> 0, erased |-> <<>>]

\* generateMaskedImage: a canvas of the measured size, the image drawn if the
\* browser has it decoded (drawImage of an image that is not draws nothing),
\* then every stroke of paths erased, in order, with destination-out. The
\* raster is kept as what was drawn into it.
generateMaskedImage(imageSrc, imageDimensions, paths, available) ==
    [image |-> IF imageSrc \in available THEN imageSrc ELSE BLANK,
     width |-> imageDimensions.width,
     height |-> imageDimensions.height,
     erased |-> paths]

\* ---------------------------------------------------------------- state
VARIABLES
    rendered,     \* component state and props as of the last render (what handlers close over)
    queued,       \* the same state with every queued setState applied
    readers,      \* files being read by a FileReader (reader.onload not yet fired), oldest first
    loading,      \* images being loaded by the mounted editor (img.onload not yet fired)
    decoded,      \* images the browser has decoded (img.complete on a new Image)
    canvas,       \* what the last run of renderCanvas drew
    exportSaw,    \* what the last run of the export effect read
    inflight,     \* generateFill calls that have neither resolved nor rejected: their masks
    innerWidth,   \* window.innerWidth
    focused,      \* the window has the input focus
    gesture,      \* the pointer gesture in progress, as delivered to the handlers
    probe,        \* a pure function of the program examined on its own: its inputs and result
    atGenerate    \* the image and stroke history the editor held when the call whose
                  \* outcome has not been rendered yet was started

vars == <<rendered, queued, readers, loading, decoded, canvas, exportSaw, inflight,
          innerWidth, focused, gesture, probe, atGenerate>>

ZeroDimensions == [width |-> 0, height |-> 0]

\* App.tsx useState initial values
AppInit ==
    [originalImage |-> NULL, generatedImage |-> NULL, maskedImageBase64 |-> NoMask,
     prompt |-> "", brushSize |-> InitialBrushSize, isGenerating |-> FALSE, error |-> NULL]

\* CanvasEditor.tsx useState initial values
EditorInit ==
    [paths |-> <<>>, isDrawing |-> FALSE, currentPath |-> <<>>,
     imageDimensions |-> ZeroDimensions, scale |-> QInt(1)]

NoCanvas ==
    [imageSrc |-> NULL, complete |-> FALSE, imageDimensions |-> ZeroDimensions,
     paths |-> <<>>, currentPath |-> <<>>, brushSize |-> 0]

NoExport == [imageSrc |-> NULL, imageDimensions |-> ZeroDimensions, paths |-> <<>>]

\* The gesture in progress: the image and brush size at its gesture-start, the
\* last client position, the mapped point of every start/move event delivered
\* since, and whether Undo or Clear was clicked meanwhile.
NoGesture ==
    [active |-> FALSE, imageSrc |-> NULL, brushSize |-> 0, last |-> <<0, 0>>,
     points |-> <<>>, edited |-> FALSE]

\* No call has been started.
NotGenerated == [imageSrc |-> NULL, paths |-> <<>>]

\* No pure function is being examined.
NoProbe == [fn |-> "none"]

\* The application as constructed.
AppStart ==
    /\ rendered = AppInit @@ EditorInit
    /\ queued = AppInit @@ EditorInit
    /\ readers = <<>>
    /\ loading = {}
    /\ decoded = {}
    /\ canvas = NoCanvas
    /\ exportSaw = NoExport
    /\ inflight = <<>>
    /\ innerWidth \in ViewportWidths
    /\ focused = TRUE
    /\ gesture = NoGesture
    /\ atGenerate = NotGenerated

Init == AppStart /\ probe = NoProbe

\* The variables of the application proper.
appVars == <<rendered, queued, readers, loading, decoded, canvas, exportSaw, inflight,
             innerWidth, focused, gesture, atGenerate>>

\* App.tsx: the editor is rendered iff originalImage && !generatedImage && !isGenerating
EditorShown(s) == s.originalImage # NULL /\ s.generatedImage = NULL /\ ~s.isGenerating

WithEditor(s, e) ==
    [s EXCEPT !.paths = e.paths, !.isDrawing = e.isDrawing, !.currentPath = e.currentPath,
              !.imageDimensions = e.imageDimensions, !.scale = e.scale]

\* ------------------------------------------------------- render + effects
\* One React render of the queued state q2, followed by the editor's three
\* effects in source order. Yields the new values of rendered, queued,
\* loading, canvas and exportSaw.
Commit(q2) ==
    LET wasShown == EditorShown(rendered)
        nowShown == EditorShown(q2)
        mount == nowShown /\ ~wasShown
        \* a newly mounted editor starts from its useState initial values
        r1 == IF nowShown /\ wasShown THEN q2 ELSE WithEditor(q2, EditorInit)
        imageSrc == r1.originalImage
        srcChanged == imageSrc # rendered.originalImage
        pathsChanged == r1.paths # rendered.paths
        dimsChanged == r1.imageDimensions # rendered.imageDimensions
        \* useEffect(..., [imageSrc])
        loadRuns == nowShown /\ (mount \/ srcChanged)
        \* useEffect(() => renderCanvas(), [renderCanvas])
        renderRuns == nowShown /\ (mount \/ srcChanged \/ pathsChanged \/ dimsChanged
                                   \/ r1.currentPath # rendered.currentPath
                                   \/ r1.brushSize # rendered.brushSize)
        \* useEffect(..., [paths, imageSrc, imageDimensions, onExportImageForAI])
        exportRuns == nowShown /\ (mount \/ srcChanged \/ pathsChanged \/ dimsChanged)
        exports == exportRuns /\ r1.imageDimensions.width > 0
        qLoad == IF loadRuns THEN [r1 EXCEPT !.paths = <<>>, !.currentPath = <<>>] ELSE r1
        qExport == IF exports
                   THEN [qLoad EXCEPT !.maskedImageBase64 =
                            generateMaskedImage(imageSrc, r1.imageDimensions, r1.paths, decoded)]
                   ELSE qLoad
    IN  [r |-> r1,
         q |-> qExport,
         loading |-> IF ~nowShown THEN {}
                     ELSE IF mount THEN {imageSrc}
                     ELSE IF loadRuns THEN loading \cup {imageSrc}
                     ELSE loading,
         canvas |-> IF ~nowShown THEN NoCanvas
                    ELSE IF renderRuns
                    THEN [imageSrc |-> imageSrc, complete |-> imageSrc \in decoded,
                          imageDimensions |-> r1.imageDimensions, paths |-> r1.paths,
                          currentPath |-> r1.currentPath, brushSize |-> r1.brushSize]
                    ELSE canvas,
         exportSaw |-> IF ~nowShown THEN NoExport
                       ELSE IF exports
                       THEN [imageSrc |-> imageSrc, imageDimensions |-> r1.imageDimensions,
                             paths |-> r1.paths]
                       ELSE exportSaw]

\* The handler's updates are rendered before the next event (discrete event).
Flush(q2, g2) ==
    LET c == Commit(q2)
        shown == EditorShown(c.r)
    IN  /\ rendered' = c.r
        /\ queued' = c.q
        /\ loading' = c.loading
        /\ canvas' = c.canvas
        /\ exportSaw' = c.exportSaw
        /\ gesture' = IF shown THEN g2 ELSE NoGesture
        /\ UNCHANGED probe

\* The handler's updates wait for a scheduled render.
Defer(q2, g2) ==
    /\ queued' = q2
    /\ gesture' = g2
    /\ UNCHANGED <<rendered, canvas, exportSaw, probe, atGenerate>>

\* The record of the call's start is kept until a render shows its outcome.
UntilOutcome ==
    atGenerate' = IF rendered.isGenerating /\ ~rendered'.isGenerating
                  THEN NotGenerated
                  ELSE atGenerate

\* The scheduled render of whatever is queued.
Render ==
    /\ queued # rendered
    /\ Flush(queued, gesture)
    /\ UntilOutcome
    /\ UNCHANGED <<readers, decoded, inflight, innerWidth, focused>>

\* ------------------------------------------------------------ the editor
\* Array.prototype.slice(start, end) on a sequence (0-based, end exclusive,
\* a negative index counts from the end).
slice(arr, start, end) ==
    LET n == Len(arr)
        from == IF start < 0 THEN (IF n + start < 0 THEN 0 ELSE n + start)
                ELSE (IF start > n THEN n ELSE start)
        to == IF end < 0 THEN (IF n + end < 0 THEN 0 ELSE n + end)
              ELSE (IF end > n THEN n ELSE end)
    IN  IF to <= from THEN <<>> ELSE SubSeq(arr, from + 1, to)

\* startDrawing
startDrawing(client) ==
    [queued EXCEPT !.isDrawing = TRUE,
                   !.currentPath = <<getCoordinates(client, rendered.scale)>>]

\* draw (the brush-preview cursor position is not modelled)
draw(client) ==
    IF ~rendered.isDrawing THEN queued
    ELSE [queued EXCEPT !.currentPath = Append(@, getCoordinates(client, rendered.scale))]

\* A stopDrawing that commits whenever its closure says Drawing, whatever the
\* in-progress stroke holds.
stopCommitsWhenDrawing == rendered.isDrawing

\* stopDrawing commits iff the handler's closure says so
stopCommits == rendered.isDrawing /\ Len(rendered.currentPath) > 0

\* stopDrawing, applied to the queued state s
stopDrawing(s) ==
    [s EXCEPT !.paths = IF stopCommits
                        THEN Append(@, [points |-> rendered.currentPath,
                                        brushSize |-> rendered.brushSize])
                        ELSE @,
              !.isDrawing = FALSE,
              !.currentPath = <<>>]

\* handleMouseLeave (isHovering only shows the brush-preview cursor)
handleMouseLeave == stopDrawing(queued)

\* An undo that drops the oldest stroke instead of the newest.
handleUndoOldest == [queued EXCEPT !.paths = slice(@, 1, Len(@))]

\* handleUndo
handleUndo == [queued EXCEPT !.paths = slice(@, 0, 0 - 1)]

\* handleClear
handleClear == [queued EXCEPT !.paths = <<>>]

\* img.onload of the image src
imgOnload(src) ==
    [queued EXCEPT !.imageDimensions = NativeSize(src),
                   !.scale = computeScale(NativeSize(src).width, NativeSize(src).height,
                                          innerWidth)]

\* The canvas fills its wrapper, whose size is imageDimensions * scale: it can
\* receive pointer events only once an image has been measured.
CanvasHasArea ==
    /\ EditorShown(rendered)
    /\ rendered.imageDimensions.width > 0
    /\ rendered.imageDimensions.height > 0

\* What a rendered (Flush) and a deferred (Defer) editor event leave alone.
FrameSync == UntilOutcome /\ UNCHANGED <<readers, decoded, inflight, innerWidth, focused>>
FrameAsync == UNCHANGED <<readers, loading, decoded, inflight, innerWidth, focused>>

\* onMouseDown / onTouchStart on the canvas
PointerDown ==
    /\ CanvasHasArea /\ focused
    /\ Len(queued.paths) < MaxPaths
    /\ \E client \in StartPositions :
          Flush(startDrawing(client),
                [active |-> TRUE, imageSrc |-> rendered.originalImage,
                 brushSize |-> rendered.brushSize, last |-> client,
                 points |-> <<getCoordinates(client, rendered.scale)>>,
                 edited |-> FALSE])
    /\ FrameSync

\* onMouseMove / onTouchMove on the canvas
PointerMove ==
    /\ CanvasHasArea /\ focused
    /\ Len(queued.currentPath) < MaxPoints
    /\ Len(gesture.points) < MaxPoints
    /\ \E client \in IF gesture.active
                     THEN {<<gesture.last[1] + MoveStep[1], gesture.last[2] + MoveStep[2]>>}
                     ELSE StartPositions :
          Defer(draw(client),
                IF gesture.active
                THEN [gesture EXCEPT !.last = client,
                         !.points = Append(@, getCoordinates(client, rendered.scale))]
                ELSE gesture)
    /\ FrameAsync

\* onMouseUp / onTouchEnd on the canvas
PointerUp ==
    /\ CanvasHasArea /\ focused
    /\ stopCommits => Len(queued.paths) < MaxPaths
    /\ Flush(stopDrawing(queued), NoGesture)
    /\ FrameSync

\* onMouseLeave on the canvas wrapper
MouseLeave ==
    /\ CanvasHasArea
    /\ stopCommits => Len(queued.paths) < MaxPaths
    /\ Defer(handleMouseLeave, NoGesture)
    /\ FrameAsync

\* click on the Undo button (disabled={paths.length === 0})
Undo ==
    /\ EditorShown(rendered) /\ focused
    /\ Len(rendered.paths) # 0
    /\ Flush(handleUndo, [gesture EXCEPT !.edited = gesture.active])
    /\ FrameSync

\* click on the Clear button (disabled={paths.length === 0})
Clear ==
    /\ EditorShown(rendered) /\ focused
    /\ Len(rendered.paths) # 0
    /\ Flush(handleClear, [gesture EXCEPT !.edited = gesture.active])
    /\ FrameSync

\* img.onload of an image the mounted editor is loading
ImgOnload ==
    /\ \E src \in loading :
          /\ Defer(imgOnload(src), gesture)
          /\ loading' = loading \ {src}
          /\ decoded' = decoded \cup {src}
    /\ UNCHANGED <<readers, inflight, innerWidth, focused>>

\* The window loses the input focus (alt-tab, a system dialog): the editor
\* binds no handler for it (no blur, pointercancel or touchcancel binding).
Blur ==
    /\ focused /\ EditorShown(rendered) /\ gesture.active
    /\ focused' = FALSE
    /\ UNCHANGED <<rendered, queued, readers, loading, decoded, canvas, exportSaw,
                   inflight, innerWidth, gesture, probe, atGenerate>>

Focus ==
    /\ ~focused
    /\ focused' = TRUE
    /\ UNCHANGED <<rendered, queued, readers, loading, decoded, canvas, exportSaw,
                   inflight, innerWidth, gesture, probe, atGenerate>>

\* ---------------------------------------------------------------- the host
NoMaskMessage == "Please upload an image and paint a mask over the area to change."
NoPromptMessage == "Please describe what you want to add in the prompt box."

\* String.prototype.trim on the prompts of the model
trim(text) == IF text = " " THEN "" ELSE text

\* reader.onload of handleFileUpload
readerOnload(file) ==
    [queued EXCEPT !.originalImage = file, !.generatedImage = NULL,
                   !.maskedImageBase64 = NoMask, !.error = NULL]

\* adjustBrushSize: setBrushSize(prev => Math.max(5, Math.min(150, prev + delta)))
clampBrush(size) ==
    LET capped == IF size < MaxBrushSize THEN size ELSE MaxBrushSize
    IN  IF capped > MinBrushSize THEN capped ELSE MinBrushSize

adjustBrushSize(delta) == [queued EXCEPT !.brushSize = clampBrush(@ + delta)]

\* handleGenerate reaches the generateFill call
generateCalls ==
    /\ rendered.originalImage # NULL
    /\ rendered.maskedImageBase64 # NoMask
    /\ trim(rendered.prompt) # ""

\* A handleGenerate that starts the call without raising isGenerating.
handleGenerateUnflagged ==
    IF rendered.originalImage = NULL \/ rendered.maskedImageBase64 = NoMask
    THEN [queued EXCEPT !.error = NoMaskMessage]
    ELSE IF trim(rendered.prompt) = ""
    THEN [queued EXCEPT !.error = NoPromptMessage]
    ELSE [queued EXCEPT !.error = NULL]

\* handleGenerate up to the await
handleGenerate ==
    IF rendered.originalImage = NULL \/ rendered.maskedImageBase64 = NoMask
    THEN [queued EXCEPT !.error = NoMaskMessage]
    ELSE IF trim(rendered.prompt) = ""
    THEN [queued EXCEPT !.error = NoPromptMessage]
    ELSE [queued EXCEPT !.isGenerating = TRUE, !.error = NULL]

\* generateFill's catch: throw new Error(error.message || "Failed to generate image.")
fillError(message) == IF message = "" THEN "Failed to generate image." ELSE message

\* handleGenerate after the await: the call resolved
generateResolved ==
    [queued EXCEPT !.generatedImage = GeneratedSrc, !.isGenerating = FALSE]

\* A rejection handler without the finally block.
generateRejectedNoFinally(message) ==
    [queued EXCEPT !.error = IF message = "" THEN "Something went wrong during generation."
                             ELSE message]

\* handleGenerate after the await: the call rejected with err.message = message
generateRejected(message) ==
    [queued EXCEPT !.error = IF message = "" THEN "Something went wrong during generation."
                             ELSE message,
                   !.isGenerating = FALSE]

\* resetApp
resetApp ==
    [queued EXCEPT !.originalImage = NULL, !.generatedImage = NULL,
                   !.maskedImageBase64 = NoMask, !.prompt = "", !.error = NULL]

\* handleContinueEditing
handleContinueEditing ==
    IF rendered.generatedImage # NULL
    THEN [queued EXCEPT !.originalImage = rendered.generatedImage, !.generatedImage = NULL,
                        !.maskedImageBase64 = NoMask, !.prompt = ""]
    ELSE queued

RemoveAt(seq, i) == SubSeq(seq, 1, i - 1) \o SubSeq(seq, i + 1, Len(seq))

\* change event of the file input (rendered while !originalImage)
SelectFile ==
    /\ rendered.originalImage = NULL /\ focused
    /\ Len(readers) < Len(Uploads)
    /\ readers = SubSeq(Uploads, 1, Len(readers))
    /\ readers' = Append(readers, Uploads[Len(readers) + 1])
    /\ UNCHANGED <<rendered, queued, loading, decoded, canvas, exportSaw, inflight,
                   innerWidth, focused, gesture, probe, atGenerate>>

\* reader.onload
ReaderOnload ==
    /\ readers # <<>>
    /\ Defer(readerOnload(Head(readers)), gesture)
    /\ readers' = Tail(readers)
    /\ UNCHANGED <<loading, decoded, inflight, innerWidth, focused>>

\* click on the - or + button of the brush control
AdjustBrush ==
    /\ EditorShown(rendered) /\ focused
    /\ \E delta \in BrushDeltas :
          /\ clampBrush(queued.brushSize + delta) \in BrushWindow
          /\ Flush(adjustBrushSize(delta), gesture)
    /\ FrameSync

\* change event of the range input: setBrushSize(parseInt(e.target.value))
SlideBrush ==
    /\ EditorShown(rendered) /\ focused
    /\ \E size \in SliderInputs : Flush([queued EXCEPT !.brushSize = size], gesture)
    /\ FrameSync

\* change event of the prompt textarea
TypePrompt ==
    /\ EditorShown(rendered) /\ focused
    /\ \E text \in Prompts : Flush([queued EXCEPT !.prompt = text], gesture)
    /\ FrameSync

\* click on Generate Fill
Generate ==
    /\ EditorShown(rendered) /\ focused
    /\ Len(inflight) < MaxCalls
    /\ Flush(handleGenerate, gesture)
    /\ inflight' = IF generateCalls
                   THEN Append(inflight, rendered.maskedImageBase64)
                   ELSE inflight
    /\ atGenerate' = IF generateCalls
                     THEN [imageSrc |-> rendered.originalImage, paths |-> rendered.paths]
                     ELSE atGenerate
    /\ UNCHANGED <<readers, decoded, innerWidth, focused>>

\* a generateFill call resolves with an image
GenerateResolves ==
    /\ \E i \in 1..Len(inflight) :
          /\ Defer(generateResolved, gesture)
          /\ inflight' = RemoveAt(inflight, i)
    /\ UNCHANGED <<readers, loading, decoded, innerWidth, focused>>

\* a generateFill call rejects
GenerateRejects ==
    /\ \E i \in 1..Len(inflight) :
          \E message \in {MissingKeyMessage} \cup {fillError(m) : m \in ServiceFailures} :
             /\ Defer(generateRejected(message), gesture)
             /\ inflight' = RemoveAt(inflight, i)
    /\ UNCHANGED <<readers, loading, decoded, innerWidth, focused>>

\* click on Start Over (header button while originalImage, result panel button)
StartOver ==
    /\ (rendered.originalImage # NULL \/ rendered.generatedImage # NULL) /\ focused
    /\ Flush(resetApp, gesture)
    /\ FrameSync

\* click on Continue Editing (result panel, rendered while generatedImage)
ContinueEditing ==
    /\ rendered.generatedImage # NULL /\ focused
    /\ Flush(handleContinueEditing, gesture)
    /\ FrameSync

\* click on the error banner's dismiss button (rendered while error)
DismissError ==
    /\ rendered.error # NULL /\ focused
    /\ Flush([queued EXCEPT !.error = NULL], gesture)
    /\ FrameSync

\* The browser window is resized.
Resize ==
    /\ \E w \in ResizedWidths : w # innerWidth /\ innerWidth' = w
    /\ UNCHANGED <<rendered, queued, readers, loading, decoded, canvas, exportSaw,
                   inflight, focused, gesture, probe, atGenerate>>

\* The editing session: the editor, and the host events that mount it,
\* unmount it and change its props.
Next ==
    \/ Render
    \/ PointerDown
    \/ PointerMove
    \/ PointerUp
    \/ MouseLeave
    \/ Undo
    \/ Clear
    \/ ImgOnload
    \/ Blur
    \/ Focus
    \/ SelectFile
    \/ ReaderOnload
    \/ AdjustBrush
    \/ SlideBrush
    \/ StartOver

Spec == Init /\ [][Next]_vars

\* The generation session: the host's prompt, Generate Fill, the call's two
\* outcomes and the result panel, with enough of the editor to paint and undo
\* a mask.
HostNext ==
    \/ Render
    \/ ImgOnload
    \/ SelectFile
    \/ ReaderOnload
    \/ StartOver
    \/ PointerDown
    \/ PointerUp
    \/ Undo
    \/ TypePrompt
    \/ Generate
    \/ GenerateResolves
    \/ GenerateRejects
    \/ ContinueEditing
    \/ DismissError

HostSpec == Init /\ [][HostNext]_vars

\* The viewing session: images are uploaded, measured and replaced while the
\* window is resized.
ViewNext ==
    \/ Render
    \/ ImgOnload
    \/ SelectFile
    \/ ReaderOnload
    \/ StartOver
    \/ PointerDown
    \/ PointerUp
    \/ Resize

ViewSpec == Init /\ [][ViewNext]_vars

\* ------------------------------------------------- the scale, on its own
\* img.onload's scale computation examined on an image of any of the sizes
\* ImageWidths x ImageHeights in a window of any of the widths ScaleViewports.
maxWidthOf(viewport) ==
    IF viewport - ViewportPadding < MaxDisplayWidth
    THEN viewport - ViewportPadding ELSE MaxDisplayWidth

ScaleInit ==
    /\ AppStart
    /\ probe \in {[fn |-> "scaleFactor", w |-> w, h |-> h, viewport |-> v, done |-> FALSE,
                   scale |-> FromInt(1), exact |-> QInt(1)] :
                     w \in ImageWidths, h \in ImageHeights, v \in ScaleViewports}

\* img.onload measures the image and computes the scale.
Measure ==
    /\ ~probe.done
    /\ probe' = [probe EXCEPT !.done = TRUE,
                              !.scale = scaleFactor(probe.w, probe.h, probe.viewport),
                              !.exact = computeScale(probe.w, probe.h, probe.viewport)]
    /\ UNCHANGED appVars

ScaleNext == Measure

ScaleSpec == ScaleInit /\ [][ScaleNext]_vars

\* -------------------------------------------- the compositor, on its own
\* generateMaskedImage examined on histories of up to MaxStrokes strokes of
\* MaskStrokes over a raster of any of the sizes MaskSizes: the history is
\* edited as the editor edits it and composed after every edit.
composite(width, height, paths) ==
    [paths |-> paths, transparent |-> transparentPixels(width, height, paths)]

MaskInit ==
    /\ AppStart
    /\ probe \in {[fn |-> "generateMaskedImage", width |-> size.width, height |-> size.height]
                     @@ composite(size.width, size.height, <<>>) : size \in MaskSizes}

Recompose(paths) ==
    /\ probe' = [probe EXCEPT !.paths = paths,
                              !.transparent = transparentPixels(probe.width, probe.height, paths)]
    /\ UNCHANGED appVars

\* setPaths(prev => [...prev, stroke]), then the export effect
MaskCommit ==
    /\ Len(probe.paths) < MaxStrokes
    /\ \E stroke \in MaskStrokes : Recompose(Append(probe.paths, stroke))

\* handleUndo, then the export effect
MaskUndo == probe.paths # <<>> /\ Recompose(slice(probe.paths, 0, 0 - 1))

\* handleClear, then the export effect
MaskClear == probe.paths # <<>> /\ Recompose(<<>>)

MaskNext == MaskCommit \/ MaskUndo \/ MaskClear

MaskSpec == MaskInit /\ [][MaskNext]_vars

\* ------------------------------------------------------------ properties
\* The step commits a stroke: StrokeHistory grows by one.
CommitsStroke == Len(queued'.paths) = Len(queued.paths) + 1

\* The stroke the step committed.
Committed == queued'.paths[Len(queued'.paths)]

\* A gesture-end event: mouse-up / touch-end, or the mouse leaving the wrapper.
GestureEnd == PointerUp \/ MouseLeave

\* No image change is waiting to be rendered, and the gesture in progress
\* began on the image being edited.
SameImage ==
    /\ queued.originalImage = rendered.originalImage
    /\ gesture.active => gesture.imageSrc = rendered.originalImage

\* C1: the brush size stored in a committed stroke is the brush size that was
\* current when its gesture started, whatever the brush control did since.
C1_BrushFrozenAtGestureStart ==
    [][(gesture.active /\ GestureEnd /\ CommitsStroke)
          => Committed.brushSize = gesture.brushSize]_vars

\* C2: the first run of the overlay renderer and of the export effect with a
\* new imageSrc sees an empty StrokeHistory and no in-progress stroke.
C2_NoStaleStrokesOnNewImage ==
    [][(/\ EditorShown(rendered)
        /\ EditorShown(rendered')
        /\ rendered'.originalImage # rendered.originalImage)
          => /\ canvas'.imageSrc = rendered'.originalImage
             /\ canvas'.paths = <<>>
             /\ canvas'.currentPath = <<>>
             /\ exportSaw'.imageSrc = rendered'.originalImage => exportSaw'.paths = <<>>]_vars

\* C3: once imageSrc has changed under a gesture, the events of that gesture
\* append no point and commit no stroke.
C3_OldGestureDiscarded ==
    [][(/\ gesture.active
        /\ EditorShown(rendered)
        /\ gesture.imageSrc # rendered.originalImage
        /\ (PointerMove \/ GestureEnd))
          => /\ Len(queued'.currentPath) <= Len(queued.currentPath)
             /\ Len(queued'.paths) <= Len(queued.paths)]_vars

\* C4: a gesture-end in Drawing with at least one point appends exactly that
\* one stroke, keeps the earlier strokes, and leaves the recorder Idle and
\* empty; a gesture-end in Idle appends nothing.
C4_OneStrokePerGesture ==
    [][(GestureEnd /\ SameImage)
          => IF queued.isDrawing /\ Len(queued.currentPath) > 0
             THEN /\ CommitsStroke
                  /\ SubSeq(queued'.paths, 1, Len(queued.paths)) = queued.paths
                  /\ queued'.currentPath = <<>>
                  /\ ~queued'.isDrawing
             ELSE queued'.paths = queued.paths]_vars

\* C5: the stroke a gesture commits holds the point of its gesture-start and
\* of every move event delivered since, in order.
C5_EveryPointCommitted ==
    [][(gesture.active /\ GestureEnd /\ SameImage)
          => /\ CommitsStroke
             /\ Committed.points = gesture.points]_vars

\* C6: while the window does not have the focus the recorder is Idle, with no
\* in-progress stroke.
C6_IdleAfterFocusLoss ==
    ~focused => (~queued.isDrawing /\ queued.currentPath = <<>>)

\* A history without its last stroke; the empty history stays empty.
ButLast(S) == IF S = <<>> THEN <<>> ELSE SubSeq(S, 1, Len(S) - 1)

\* C7: undo removes exactly the last stroke of the history it is applied to
\* (nothing from an empty history), so the history after committing a stroke
\* and undoing is the history before: same strokes, order and brush sizes.
C7_UndoRemovesLast ==
    [][(Undo /\ SameImage)
          => /\ queued'.paths = ButLast(queued.paths)
             /\ rendered'.paths = ButLast(queued.paths)
             /\ \A i \in 1..Len(queued.paths) :
                   ButLast(Append(SubSeq(queued.paths, 1, i - 1), queued.paths[i]))
                      = SubSeq(queued.paths, 1, i - 1)]_vars

\* Undo has just removed the second of two different strokes: the host still
\* holds the mask of both, the history and the export hold only the first.
C7_UndoneSecondStroke ==
    /\ Len(rendered.paths) = 1
    /\ exportSaw.paths = rendered.paths
    /\ Len(rendered.maskedImageBase64.erased) = 2
    /\ rendered.maskedImageBase64.erased[1] = rendered.paths[1]
    /\ rendered.maskedImageBase64.erased[2] # rendered.paths[1]

\* C8: undo and clear leave the recorder's Drawing/Idle state and its
\* in-progress stroke alone, and the stroke committed at the end of a gesture
\* during which undo or clear ran holds every point of that gesture.
C8_EditsLeaveGestureAlone ==
    [][/\ ((Undo \/ Clear) /\ SameImage)
             => /\ queued'.isDrawing = queued.isDrawing
                /\ queued'.currentPath = queued.currentPath
       /\ (gesture.active /\ gesture.edited /\ GestureEnd /\ SameImage)
             => /\ CommitsStroke
                /\ Committed.points = gesture.points]_vars

\* C9: every stroke of StrokeHistory, queued or rendered, has at least one point.
C9_NoEmptyStroke ==
    /\ \A i \in 1..Len(queued.paths) : Len(queued.paths[i].points) >= 1
    /\ \A i \in 1..Len(rendered.paths) : Len(rendered.paths[i].points) >= 1

\* A gesture-end has arrived on the second image and left a stroke of exactly
\* one point in its history.
C9_SinglePointStroke ==
    /\ rendered.originalImage = Uploads[2]
    /\ ~rendered.isDrawing
    /\ Len(rendered.paths) > 0
    /\ Len(rendered.paths[1].points) = 1

\* C10: once the editor shows a measured image, the last run of the mask
\* compositor saw the current image, that image's own dimensions and exactly
\* the current StrokeHistory, never a mixture of old and new state.
C10_ExportSeesCurrentState ==
    (EditorShown(rendered) /\ rendered.imageDimensions.width > 0)
       => /\ exportSaw.imageSrc = rendered.originalImage
          /\ exportSaw.imageDimensions = NativeSize(rendered.originalImage)
          /\ exportSaw.paths = rendered.paths

\* C11: every run of the mask compositor had positive width and height, and
\* they were the native dimensions of the imageSrc it composed.
C11_ExportOnlyWhenMeasured ==
    exportSaw # NoExport
       => /\ exportSaw.imageDimensions.width > 0
          /\ exportSaw.imageDimensions.height > 0
          /\ exportSaw.imageDimensions = NativeSize(exportSaw.imageSrc)

\* C12: a mask exported with an empty StrokeHistory is the decoded source
\* raster itself: the image drawn (not a blank canvas), at its native size,
\* with no transparent pixel.
C12_EmptyMaskIsSource ==
    LET mask == queued.maskedImageBase64
    IN  (mask # NoMask /\ mask.erased = <<>>)
           => /\ mask.image # BLANK
              /\ mask.width = NativeSize(mask.image).width
              /\ mask.height = NativeSize(mask.image).height
              /\ transparentPixels(mask.width, mask.height, mask.erased) = {}

\* What C15 says of the scale apart from the two display bounds: it is the
\* double of min(maxWidth / w, maxHeight / h, 1), it lies in (0, 1], and it
\* is exactly 1 for an image that already fits the bounds.
ScaleIsCappedMinimum ==
    LET maxWidth == maxWidthOf(probe.viewport)
    IN  /\ probe.scale = FMin(FMin(FDiv(maxWidth, probe.w), FDiv(MaxDisplayHeight, probe.h)),
                              FromInt(1))
        /\ probe.scale = FDiv(probe.exact[1], probe.exact[2])
        /\ probe.exact = QMin(QMin(Q(maxWidth, probe.w), Q(MaxDisplayHeight, probe.h)), QInt(1))
        /\ probe.scale.m[1] = 1
        /\ FLe(probe.scale, FromInt(1))
        /\ QLt(QInt(0), probe.exact) /\ QLe(probe.exact, QInt(1))
        /\ (probe.w <= maxWidth /\ probe.h <= MaxDisplayHeight) => probe.scale = FromInt(1)

\* C15 as stated: the computed scale is min(maxWidth / w, maxHeight / h, 1),
\* in (0, 1], exactly 1 for an image that fits, and the displayed size
\* w * scale, h * scale does not exceed maxWidth, maxHeight.
C15_ScaleWithinBounds ==
    probe.done
       => /\ ScaleIsCappedMinimum
          /\ FLe(FMulInt(probe.w, probe.scale), FromInt(maxWidthOf(probe.viewport)))
          /\ FLe(FMulInt(probe.h, probe.scale), FromInt(MaxDisplayHeight))

\* C15 amended: as stated, but the displayed size w * scale, h * scale may
\* exceed maxWidth, maxHeight by one unit in the last place of the double
\* (it is at most the next double above the bound).
C15_ScaleWithinBoundsUpToRounding ==
    probe.done
       => /\ ScaleIsCappedMinimum
          /\ FLe(FMulInt(probe.w, probe.scale), NextUp(FromInt(maxWidthOf(probe.viewport))))
          /\ FLe(FMulInt(probe.h, probe.scale), NextUp(FromInt(MaxDisplayHeight)))

\* A measured 1101 x 1101 image in a wide window: scale = 600 / 1101 and the
\* displayed height 1101 * scale is the double just above 600.
C15_DisplayedHeightOvershoots ==
    /\ probe.done
    /\ probe.w = 1101 /\ probe.h = 1101 /\ probe.viewport = 832
    /\ probe.scale = FDiv(MaxDisplayHeight, 1101)
    /\ FMulInt(probe.h, probe.scale) = NextUp(FromInt(MaxDisplayHeight))

\* The sample pixels inside the raster under examination.
InRaster(px) == px[1] < probe.width /\ px[2] < probe.height

ImageSpace(client, scale) ==
    [x |-> Q((client[1] - CanvasRect.left) * scale[2], scale[1]),
     y |-> Q((client[2] - CanvasRect.top) * scale[2], scale[1])]

\* C17: the point a gesture-start or move event records is the pointer
\* position relative to the canvas origin divided by the scale of the render
\* the event arrived in; at scale 1/2 (1600x1200 in 800x600) a drag from
\* display (0,0) to (100,0) records (0,0) and (200,0), and at scale 1 a click
\* at display (100,100) records (100,100).
C17_PointsAreImageSpace ==
    [][/\ computeScale(1600, 1200, 832) = <<1, 2>>
       /\ getCoordinates(<<CanvasRect.left, CanvasRect.top>>, <<1, 2>>) = At(0, 0)
       /\ getCoordinates(<<CanvasRect.left + 100, CanvasRect.top>>, <<1, 2>>) = At(200, 0)
       /\ getCoordinates(<<CanvasRect.left + 100, CanvasRect.top + 100>>, QInt(1))
             = At(100, 100)
       /\ (PointerDown /\ gesture'.active /\ queued'.currentPath # <<>>)
             => queued'.currentPath = <<ImageSpace(gesture'.last, rendered.scale)>>
       /\ (PointerMove /\ gesture.active
             /\ Len(queued'.currentPath) = Len(queued.currentPath) + 1)
             => queued'.currentPath
                   = Append(queued.currentPath, ImageSpace(gesture'.last, rendered.scale))]_vars

\* On the 1600x1200 image shown at scale 1/2 a drag from display (0,0) to
\* (100,0) has been committed as the stroke (0,0), (200,0).
C17_DragCommittedInImageSpace ==
    /\ rendered.originalImage = Uploads[1]
    /\ rendered.scale = <<1, 2>>
    /\ \E i \in 1..Len(rendered.paths) :
          rendered.paths[i].points = <<At(0, 0), At(200, 0)>>

\* C16: once the shown image has been measured and nothing is waiting to be
\* rendered or loaded, the scale lies in (0, 1] and is the one computed from
\* the current image's native size and the current viewport width.
C16_ScaleFollowsImageAndViewport ==
    (CanvasHasArea /\ rendered = queued /\ loading = {})
       => /\ QLt(QInt(0), rendered.scale)
          /\ QLe(rendered.scale, QInt(1))
          /\ rendered.scale
                = computeScale(NativeSize(rendered.originalImage).width,
                               NativeSize(rendered.originalImage).height, innerWidth)

\* C18: at most one generateFill call is in flight at any time, whatever the
\* user does (Generate, Start Over, upload, Continue Editing, dismissing the
\* error) while calls complete.
C18_OneCallInFlight == Len(inflight) <= 1

\* A call is in flight and the user has clicked Start Over meanwhile.
C18_CallOutlivesStartOver ==
    /\ Len(inflight) = 1
    /\ rendered.isGenerating
    /\ rendered.originalImage = NULL

\* C19: a call that fails leaves isGenerating false, error a non-empty
\* message and generatedImage as it was; a call that succeeds leaves
\* isGenerating false and error null; and a call is started only by a click
\* on Generate, never by a completion.
C19_CallOutcomeSurfaced ==
    [][/\ GenerateRejects
             => /\ queued'.isGenerating = FALSE
                /\ queued'.error \notin {NULL, ""}
                /\ queued'.generatedImage = queued.generatedImage
                /\ Len(inflight') = Len(inflight) - 1
       /\ GenerateResolves
             => /\ queued'.isGenerating = FALSE
                /\ queued'.error = NULL
                /\ Len(inflight') = Len(inflight) - 1
       /\ Len(inflight') > Len(inflight) => Generate]_vars

\* A failed call has been rendered: the editor is back, the banner shows
\* generateFill's fallback message and nothing is in flight.
C19_FailureShown ==
    /\ EditorShown(rendered)
    /\ rendered.error = fillError("")
    /\ rendered.generatedImage = NULL
    /\ inflight = <<>>

\* C20: the mask a click on Generate passes to generateFill is the composite
\* of the image the editor shows with the stroke history the editor holds at
\* that moment.
C20_SubmittedMaskIsCurrent ==
    [][(Generate /\ Len(inflight') > Len(inflight))
          => /\ inflight'[Len(inflight')].image = rendered.originalImage
             /\ inflight'[Len(inflight')].erased = rendered.paths]_vars

\* C21: a generated result is shown only for the session that requested it:
\* generatedImage is set only while originalImage is, and a call that
\* completes after Start Over, with no image loaded, sets neither
\* generatedImage nor error.
C21_ResultBelongsToSession ==
    /\ [](queued.generatedImage # NULL => queued.originalImage # NULL)
    /\ [][((GenerateResolves \/ GenerateRejects) /\ queued.originalImage = NULL)
             => /\ queued'.generatedImage = queued.generatedImage
                /\ queued'.error = queued.error]_vars

\* C22: when a render shows a failed call's error and the editor again, on
\* the image the call was started for, the editor holds the stroke history
\* it held when Generate was clicked.
C22_FailureKeepsHistory ==
    [][(/\ rendered.isGenerating
        /\ ~rendered'.isGenerating
        /\ rendered'.error # NULL
        /\ EditorShown(rendered')
        /\ rendered'.originalImage = atGenerate.imageSrc)
          => rendered'.paths = atGenerate.paths]_vars

\* C23: a gesture-start received while the recorder is Drawing keeps the
\* points of the stroke in progress: they are still the beginning of
\* currentPath after the event.
C23_RepeatedStartKeepsPoints ==
    [][(PointerDown /\ queued.isDrawing /\ SameImage /\ EditorShown(rendered'))
          => /\ Len(queued'.currentPath) >= Len(queued.currentPath)
             /\ SubSeq(queued'.currentPath, 1, Len(queued.currentPath))
                   = queued.currentPath]_vars

====
